---- MODULE Spec2Model ----
(***************************************************************************)
(* A model of launch-ide: editor resolution (guessEditor), argument        *)
(* synthesis (getArguments) and process orchestration (launchIDE).         *)
(*                                                                         *)
(* Representation.  A JavaScript string is a sequence of tokens (each      *)
(* token a TLA+ string standing for a run of characters): "/usr/bin/vim"   *)
(* is <<"/usr/bin", "/", "vim">>, the template "{file}:{line}" is          *)
(* <<"{file}", ":", "{line}">>.  Concatenation is \o, endsWith is "is a    *)
(* suffix of", String.replace replaces the first occurrence.  null and     *)
(* undefined strings are the one-token string Null.  A format (string |    *)
(* string[] | undefined) is a record [kind, val].                          *)
(***************************************************************************)
EXTENDS Integers, Sequences, FiniteSets, TLC

VARIABLES
    platform,       \* process.platform
    childProcess,   \* _childProcess: pid of the tracked process, 0 for null
    procs,          \* every process launchIDE has spawned, by pid
    last,           \* what the handler that ran last did
    req,            \* SpecPipeline: the one request (params, env) it replays
    gaIn, gaOut,    \* a direct call of getArguments: parameters, result
    geIn, geOut     \* a direct call of guessEditor: parameters, result

vars == <<platform, childProcess, procs, last, req, gaIn, gaOut, geIn, geOut>>

----------------------------------------------------------------------------
(* JavaScript values *)

Null == <<"<null>">>

Undefined == 0 - 1

Truthy(s) == s # Null /\ s # <<>>

Str(n) == <<ToString(n)>>

Platforms == {"darwin", "linux", "win32"}

\* String.prototype.indexOf: the first position of pat in s, 0 when absent
\* (JavaScript's -1).
IndexOf(s, pat) ==
    LET hits == {i \in 1..(Len(s) - Len(pat) + 1) :
                    SubSeq(s, i, i + Len(pat) - 1) = pat}
    IN  IF hits = {} THEN 0 ELSE CHOOSE i \in hits : \A j \in hits : i <= j

Includes(s, pat) == IndexOf(s, pat) # 0

\* String.prototype.replace with a string pattern: the first occurrence only.
Replace(s, pat, repl) ==
    LET i == IndexOf(s, pat)
    IN  IF i = 0 THEN s
        ELSE SubSeq(s, 1, i - 1) \o repl \o SubSeq(s, i + Len(pat), Len(s))

EndsWith(s, suffix) ==
    /\ Len(suffix) <= Len(s)
    /\ SubSeq(s, Len(s) - Len(suffix) + 1, Len(s)) = suffix

LowerTok(t) ==
    CASE t = "Code" -> "code"
      [] t = "Electron" -> "electron"
      [] t = "NONE" -> "none"
      [] t = "MyEdit" -> "myedit"
      [] t = ".EXE" -> ".exe"
      [] OTHER -> t

ToLowerCase(s) == [i \in 1..Len(s) |-> LowerTok(s[i])]

\* path.basename: what follows the last separator ("/" everywhere, "\" as well
\* on win32).
Separators(plat) == IF plat = "win32" THEN {"/", "\\"} ELSE {"/"}

Basename(s, plat) ==
    LET seps == {i \in 1..Len(s) : s[i] \in Separators(plat)}
        from == IF seps = {} THEN 0
                ELSE CHOOSE i \in seps : \A j \in seps : j <= i
    IN  SubSeq(s, from + 1, Len(s))

\* .replace(/\.(exe|cmd|bat|sh)$/i, "")
ExecutableExtensions == {".exe", ".cmd", ".bat", ".sh"}

StripExecutableExtension(s) ==
    IF Len(s) > 0 /\ LowerTok(s[Len(s)]) \in ExecutableExtensions
    THEN SubSeq(s, 1, Len(s) - 1)
    ELSE s

----------------------------------------------------------------------------
(* The platform editor table (editor-info): per platform, in key order,    *)
(* canonical editor name -> known process paths.                           *)

COMMON_EDITOR_PROCESS_MAP(plat) ==
    CASE plat = "darwin" ->
            << [key |-> <<"code">>,
                paths |-> {<<"/", "Visual Studio Code.app/Contents/MacOS", "/", "Electron">>}],
               [key |-> <<"webstorm">>,
                paths |-> {<<"/", "WebStorm.app/Contents/MacOS", "/", "webstorm">>}],
               [key |-> <<"vim">>, paths |-> {<<"vim">>}] >>
      [] plat = "linux" ->
            << [key |-> <<"code">>, paths |-> {<<"code">>}],
               [key |-> <<"webstorm">>, paths |-> {<<"webstorm", ".sh">>}],
               [key |-> <<"vim">>, paths |-> {<<"vim">>}] >>
      [] OTHER ->
            << [key |-> <<"code">>, paths |-> {<<"Code", ".exe">>}],
               [key |-> <<"webstorm">>, paths |-> {<<"webstorm64", ".exe">>}] >>

----------------------------------------------------------------------------
(* Argument synthesis: get-args.ts *)

FormatFile == <<"{file}">>
FormatLine == <<"{line}">>
FormatColumn == <<"{column}">>

StringFormat(s) == [kind |-> "string", val |-> s]
ArrayFormat(a) == [kind |-> "array", val |-> a]
NoFormat == [kind |-> "undefined", val |-> <<>>]

\* JavaScript truthiness of a string | string[] | undefined
FormatTruthy(f) ==
    \/ f.kind = "array"
    \/ f.kind = "string" /\ f.val # <<>>

Substitute(item, file, line, column) ==
    Replace(Replace(Replace(item, FormatFile, file), FormatLine, Str(line)),
            FormatColumn, Str(column))

formatOpenPath(file, line, column, format) ==
    IF format.kind = "string"
    THEN << Substitute(format.val, file, line, column) >>
    ELSE IF format.kind = "array"
    THEN [i \in 1..Len(format.val) |->
              Substitute(format.val[i], file, line, column)]
    ELSE << file \o <<":">> \o Str(line) \o <<":">> \o Str(column) >>

getEditorBasenameByProcessName(processName, plat) ==
    LET table == COMMON_EDITOR_PROCESS_MAP(plat)
        stem == StripExecutableExtension(Basename(processName, plat))
        hits == {i \in 1..Len(table) :
                    \E editorPath \in table[i].paths :
                        EndsWith(processName, editorPath)}
        editorBasename ==
            IF hits = {} THEN stem
            ELSE table[CHOOSE i \in hits : \A j \in hits : i <= j].key
    IN  ToLowerCase(editorBasename)

PlainEditors ==
    {<<"atom">>, <<"atom beta">>, <<"subl">>, <<"sublime">>,
     <<"sublime_text">>, <<"wstorm">>, <<"charm">>, <<"zed">>}
NotepadEditors == {<<"notepad++">>}
VimEditors == {<<"vim">>, <<"mvim">>}
PlusLineEditors == {<<"joe">>, <<"gvim">>}
EmacsEditors == {<<"emacs">>, <<"emacsclient">>}
TextMateEditors == {<<"rmate">>, <<"mate">>, <<"mine">>}
VSCodeEditors ==
    {<<"code">>, <<"code-insiders">>, <<"code - insiders">>, <<"codium">>,
     <<"cursor">>, <<"windsurf">>, <<"vscodium">>, <<"hbuilderx">>,
     <<"hbuilder">>}
JetBrainsEditors ==
    {<<"appcode">>, <<"clion">>, <<"clion64">>, <<"idea">>, <<"idea64">>,
     <<"phpstorm">>, <<"phpstorm64">>, <<"pycharm">>, <<"pycharm64">>,
     <<"rubymine">>, <<"rubymine64">>, <<"webstorm">>, <<"webstorm64">>,
     <<"goland">>, <<"goland64">>, <<"rider">>, <<"rider64">>}

KnownEditors ==
    PlainEditors \cup NotepadEditors \cup VimEditors \cup PlusLineEditors
    \cup EmacsEditors \cup TextMateEditors \cup VSCodeEditors
    \cup JetBrainsEditors

Optional(s) == IF Truthy(s) THEN <<s>> ELSE <<>>

VSCodeFormatFlagFirst(openWindowParams, workspace) ==
    ArrayFormat(<< <<"-g">> >> \o Optional(workspace)
                \o Optional(openWindowParams)
                \o << FormatFile \o <<":">> \o FormatLine \o <<":">>
                      \o FormatColumn >>)

\* Lines 256-261
VSCodeFormat(openWindowParams, workspace) ==
    ArrayFormat(Optional(workspace) \o << <<"-g">> >>
                \o Optional(openWindowParams)
                \o << FormatFile \o <<":">> \o FormatLine \o <<":">>
                      \o FormatColumn >>)

getFormatByEditor(editorBasename, openWindowParams, workspace) ==
    CASE editorBasename \in PlainEditors ->
            StringFormat(FormatFile \o <<":">> \o FormatLine \o <<":">>
                         \o FormatColumn)
      [] editorBasename \in NotepadEditors ->
            ArrayFormat(<< <<"-n">> \o FormatLine, <<"-c">> \o FormatColumn,
                           FormatFile >>)
      [] editorBasename \in VimEditors ->
            ArrayFormat(<< <<"+call cursor(">> \o FormatLine \o <<", ">>
                           \o FormatColumn \o <<")">>,
                           FormatFile >>)
      [] editorBasename \in PlusLineEditors ->
            ArrayFormat(<< <<"+">> \o FormatLine, FormatFile >>)
      [] editorBasename \in EmacsEditors ->
            ArrayFormat(<< <<"+">> \o FormatLine \o <<":">> \o FormatColumn,
                           FormatFile >>)
      [] editorBasename \in TextMateEditors ->
            ArrayFormat(<< <<"--line">>, FormatLine, FormatFile >>)
      [] editorBasename \in VSCodeEditors ->
            VSCodeFormat(openWindowParams, workspace)
      [] editorBasename \in JetBrainsEditors ->
            ArrayFormat(Optional(workspace)
                        \o << <<"--line">>, FormatLine, FormatFile >>)
      [] OTHER -> StringFormat(<<>>)

EditorFormatFileLineColumn(editorBasename, openWindowParams, workspace) ==
    LET format == getFormatByEditor(editorBasename, openWindowParams, workspace)
    IN  IF FormatTruthy(format) THEN format
        ELSE StringFormat(FormatFile \o <<":">> \o FormatLine \o <<":">>
                          \o FormatColumn)

\* getFormatByEditor(_params) || "{file}"
EditorFormat(editorBasename, openWindowParams, workspace) ==
    LET format == getFormatByEditor(editorBasename, openWindowParams, workspace)
    IN  IF FormatTruthy(format) THEN format ELSE StringFormat(FormatFile)

ChosenFormatFamilyFirst(pathFormat, format) ==
    IF FormatTruthy(format) THEN format ELSE pathFormat

\* pathFormat || format
ChosenFormat(pathFormat, format) ==
    IF FormatTruthy(pathFormat) THEN pathFormat ELSE format

getArguments(p, plat) ==
    LET editorBasename == getEditorBasenameByProcessName(p.processName, plat)
        format == EditorFormat(editorBasename, p.openWindowParams, p.workspace)
    IN  formatOpenPath(p.fileName, p.lineNumber, p.colNumber,
                       ChosenFormat(p.pathFormat, format))

----------------------------------------------------------------------------
(* Editor resolution: guessEditor.  The environment a call reads is a      *)
(* record: CODE_EDITOR (process.env.CODE_EDITOR), envLocalExists and       *)
(* envLocalCodeEditor (.env.local and its CODE_EDITOR key), listingFails   *)
(* and backupFails (execSync throwing), output (the process listing),      *)
(* VISUAL and EDITOR.  The result is [editor, listed]: the first element   *)
(* of the returned array (Null for null) and whether a process-listing     *)
(* command was run.                                                        *)

\* COMMON_EDITORS_MAP (editor-info): per platform, in key order, process
\* name -> launch command.
COMMON_EDITORS_MAP(plat) ==
    CASE plat = "darwin" ->
            << [key |-> <<"/", "Visual Studio Code.app/Contents/MacOS", "/", "Electron">>,
                value |-> <<"code">>],
               [key |-> <<"/", "WebStorm.app/Contents/MacOS", "/", "webstorm">>,
                value |-> <<"/", "WebStorm.app/Contents/MacOS", "/", "webstorm">>],
               [key |-> <<"vim">>, value |-> <<"vim">>] >>
      [] plat = "linux" ->
            << [key |-> <<"code">>, value |-> <<"code">>],
               [key |-> <<"webstorm", ".sh">>, value |-> <<"webstorm">>],
               [key |-> <<"vim">>, value |-> <<"vim">>] >>
      [] OTHER ->
            << [key |-> <<"Code", ".exe">>, value |-> <<"code">>],
               [key |-> <<"webstorm64", ".exe">>, value |-> <<"webstorm">>] >>

NoCustom == [has |-> FALSE, names |-> {}]

First(S) == CHOOSE i \in S : \A j \in S : i <= j

Lookup(table, hits) ==
    IF hits = {} THEN NoCustom
    ELSE [has |-> TRUE, names |-> table[First(hits)].paths]

getEditorByCustom(editor, plat) ==
    Lookup(COMMON_EDITOR_PROCESS_MAP(plat),
           {i \in 1..Len(COMMON_EDITOR_PROCESS_MAP(plat)) :
               COMMON_EDITOR_PROCESS_MAP(plat)[i].key = editor})

NoOverride == [custom |-> NoCustom, returns |-> FALSE]

Configured(editor) == [custom |-> editor, returns |-> ~editor.has]

CheckConfiguredNeverReturns(value, plat) ==
    IF ~Truthy(value) THEN NoOverride
    ELSE [custom |-> getEditorByCustom(value, plat), returns |-> FALSE]

\* if (value) { editor = getEditorByCustom(value);
\*              if (editor) customEditors = editor; else return [value]; }
CheckConfigured(value, plat) ==
    IF ~Truthy(value) THEN NoOverride
    ELSE Configured(getEditorByCustom(value, plat))

\* if (_editor && !customEditors) { editor = getEditorByCustom(_editor);
\*                                  if (editor) customEditors = editor; }
CheckParameter(value, plat) ==
    IF ~Truthy(value) THEN NoCustom ELSE getEditorByCustom(value, plat)

RECURSIVE Split(_, _)
Split(s, sep) ==
    IF ~Includes(s, <<sep>>) THEN <<s>>
    ELSE <<SubSeq(s, 1, IndexOf(s, <<sep>>) - 1)>>
         \o Split(SubSeq(s, IndexOf(s, <<sep>>) + 1, Len(s)), sep)

RECURSIVE Trim(_)
Trim(s) ==
    IF Len(s) > 0 /\ s[1] = " " THEN Trim(Tail(s))
    ELSE IF Len(s) > 0 /\ s[Len(s)] = " " THEN Trim(SubSeq(s, 1, Len(s) - 1))
    ELSE s

TrimAll(lines) == [i \in 1..Len(lines) |-> Trim(lines[i])]

\* output.split(isWin32 ? "\r\n" : "\n").map((item) => item.trim())
RunningProcesses(output, plat) ==
    TrimAll(Split(output, IF plat = "win32" THEN "\r\n" ELSE "\n"))

NoMatch == [runningEditor |-> <<>>, editor |-> <<>>]

\* Array.prototype.find: the first element that satisfies, <<>> for undefined
Find(running, hits) == IF hits = {} THEN <<>> ELSE running[First(hits)]

\* Lines 401-409
MatchWin32(processPath, plat) ==
    IF ~Truthy(processPath) THEN NoMatch
    ELSE [runningEditor |-> Basename(processPath, plat), editor |-> processPath]

\* Lines 410-427
MatchDarwin(entry, runningProcess) ==
    IF ~Truthy(runningProcess) THEN NoMatch
    ELSE [runningEditor |-> entry.key,
          editor |-> IF Includes(entry.value, <<"/">>)
                     THEN Replace(runningProcess, entry.key, <<>>) \o entry.value
                     ELSE entry.value]

\* Lines 428-434
MatchLinux(entry, output) ==
    IF Includes(output, entry.key)
    THEN [runningEditor |-> entry.key, editor |-> entry.value]
    ELSE NoMatch

\* One turn of the loop over editorNames: the running editor's name and the
\* command to return for it, both <<>> when the editor is not running.
MatchEditor(entry, running, output, plat) ==
    IF plat = "win32"
    THEN MatchWin32(Find(running, {k \in 1..Len(running) :
                                      Basename(running[k], plat) = entry.key}),
                    plat)
    ELSE IF plat = "darwin"
    THEN MatchDarwin(entry, Find(running, {k \in 1..Len(running) :
                                              EndsWith(running[k], entry.key)}))
    ELSE MatchLinux(entry, output)

Matches(commonEditors, running, output, plat) ==
    [i \in 1..Len(commonEditors) |->
        MatchEditor(commonEditors[i], running, output, plat)]

Found(m) ==
    {i \in 1..Len(m) : Truthy(m[i].runningEditor) /\ Truthy(m[i].editor)}

PickFirstOnly(m, customEditors) ==
    IF Found(m) # {} THEN m[First(Found(m))].editor ELSE Null

\* Lines 436-451: the first running editor that customEditors includes, else
\* the first running editor, else Null.
PickEditor(m, customEditors) ==
    IF \E i \in Found(m) : customEditors.has
                           /\ m[i].runningEditor \in customEditors.names
    THEN m[First({i \in Found(m) :
                     m[i].runningEditor \in customEditors.names})].editor
    ELSE IF Found(m) # {} THEN m[First(Found(m))].editor
    ELSE Null

ScanProcesses(customEditors, output, plat) ==
    PickEditor(Matches(COMMON_EDITORS_MAP(plat), RunningProcesses(output, plat),
                       output, plat),
               customEditors)

\* Lines 376-384: execSync throwing.  Elsewhere than win32 the listing is
\* empty; on win32 the backup command runs, and its failure ends the try block.
InspectProcesses(customEditors, env, plat) ==
    IF env.listingFails /\ plat = "win32" /\ env.backupFails THEN Null
    ELSE ScanProcesses(customEditors,
                       IF env.listingFails /\ plat # "win32" THEN <<>>
                       ELSE env.output,
                       plat)

\* Lines 456-464
EnvironmentFallback(env) ==
    IF Truthy(env.VISUAL) THEN env.VISUAL
    ELSE IF Truthy(env.EDITOR) THEN env.EDITOR
    ELSE Null

Inspected(scanned, env) ==
    [editor |-> IF scanned # Null THEN scanned ELSE EnvironmentFallback(env),
     listed |-> TRUE]

\* Lines 353-465, fromFile being what the check of .env.local gave
AfterFile(custom, fromFile, editorParam, env, plat) ==
    IF fromFile.returns
    THEN [editor |-> env.envLocalCodeEditor, listed |-> FALSE]
    ELSE Inspected(
            InspectProcesses(
                IF custom.has THEN custom
                ELSE IF fromFile.custom.has THEN fromFile.custom
                ELSE CheckParameter(editorParam, plat),
                env, plat),
            env)

\* Lines 337-465, fromEnv being what the check of process.env gave
AfterEnv(fromEnv, editorParam, env, plat) ==
    IF fromEnv.returns
    THEN [editor |-> env.CODE_EDITOR, listed |-> FALSE]
    ELSE AfterFile(fromEnv.custom,
                   IF env.envLocalExists /\ ~fromEnv.custom.has
                   THEN CheckConfigured(env.envLocalCodeEditor, plat)
                   ELSE NoOverride,
                   editorParam, env, plat)

guessEditor(editorParam, env, plat) ==
    AfterEnv(CheckConfigured(env.CODE_EDITOR, plat), editorParam, env, plat)

----------------------------------------------------------------------------
(* Process orchestration: launchIDE and the handlers it registers.  A call *)
(* reads params (the LaunchIDEParams: file, line, column, editor, method,  *)
(* format, onError as "is a function") and the environment env, which adds *)
(* to the fields guessEditor reads: fileExists (fs.existsSync(file)),      *)
(* FORMAT_PATH and envLocalFormatPath (CODE_INSPECTOR_FORMAT_PATH in       *)
(* process.env and in .env.local, each [set, valid, value]: present, valid *)
(* JSON, the parsed value) and wsl (os.release() names Microsoft).         *)

isTerminalEditor(editor) == editor \in {<<"vim">>, <<"emacs">>, <<"nano">>}

getOpenWindowParams(method) ==
    IF method = "reuse" THEN <<"-r">>
    ELSE IF method = "new" THEN <<"-n">>
    ELSE <<>>

UnsetConfig == [set |-> FALSE, valid |-> FALSE, value |-> NoFormat]

\* JSON.parse of a setting, null when it throws
ParseConfig(c) == IF c.valid THEN c.value ELSE NoFormat

getEnvFormatPath(env) ==
    IF env.FORMAT_PATH.set THEN ParseConfig(env.FORMAT_PATH)
    ELSE IF env.envLocalExists /\ env.envLocalFormatPath.set
    THEN ParseConfig(env.envLocalFormatPath)
    ELSE NoFormat

StartsWith(s, prefix) ==
    Len(prefix) <= Len(s) /\ SubSeq(s, 1, Len(prefix)) = prefix

\* path.relative("", file), the working directory being two levels deep
PathRelative(file) == <<"../..">> \o file

\* Lines 213-227
TargetFile(file, env, plat) ==
    IF plat = "linux" /\ StartsWith(file, <<"/mnt/">>) /\ env.wsl
    THEN PathRelative(file)
    ELSE file

\* Lines 258-279: the command line handed to the shell on win32
MetaCharacters == {"&", "|", "<", ">", ",", ";", "=", "^"}

RECURSIVE escapeCmdArgs(_)
escapeCmdArgs(s) ==
    IF s = <<>> THEN <<>>
    ELSE (IF s[1] \in MetaCharacters THEN <<"^", s[1]>> ELSE <<s[1]>>)
         \o escapeCmdArgs(Tail(s))

doubleQuoteIfNeeded(s) ==
    IF Includes(s, <<"^">>) THEN <<"^\"">> \o s \o <<"^\"">>
    ELSE IF Includes(s, <<" ">>) THEN <<"\"">> \o s \o <<"\"">>
    ELSE s

RECURSIVE Join(_)
Join(parts) ==
    IF parts = <<>> THEN <<>>
    ELSE IF Len(parts) = 1 THEN parts[1]
    ELSE parts[1] \o <<" ">> \o Join(Tail(parts))

launchCommand(editor, args) ==
    Join(<<doubleQuoteIfNeeded(editor)>>
         \o [i \in 1..Len(args) |-> doubleQuoteIfNeeded(escapeCmdArgs(args[i]))])

Report(onError) == [kind |-> IF onError THEN "onError" ELSE "console", pid |-> 0]

\* let { line = 1, column = 1 } = params
DefaultOne(n) == IF n = Undefined THEN 1 ELSE n

\* Lines 229-247: the arguments after the editor command
LaunchArgs(editor, file, line, column, method, pathFormat, plat) ==
    IF line # 0
    THEN getArguments([processName |-> editor, fileName |-> file,
                       lineNumber |-> line, colNumber |-> column,
                       workspace |-> Null,
                       openWindowParams |-> getOpenWindowParams(method),
                       pathFormat |-> pathFormat], plat)
    ELSE <<file>>

KillsTrackedAlways(tracked, editor) == tracked # 0

\* if (_childProcess && isTerminalEditor(editor)) _childProcess.kill("SIGKILL")
KillsTracked(tracked, editor) == tracked # 0 /\ isTerminalEditor(editor)

\* if (!editor || editor.toLowerCase() === "none")
NoEditor(editor) == ~Truthy(editor) \/ ToLowerCase(editor) = <<"none">>

\* Lines 180-183: nothing happens
Dropped(file) ==
    [spawned |-> FALSE, editor |-> Null, file |-> file, args |-> <<>>,
     command |-> <<>>, events |-> <<>>]

UnrecognizedSilent(editor, file, onError) ==
    [spawned |-> FALSE, editor |-> editor, file |-> file, args |-> <<>>,
     command |-> <<>>, events |-> <<>>]

\* Lines 192-211: the failure is reported, nothing is spawned
Unrecognized(editor, file, onError) ==
    [spawned |-> FALSE, editor |-> editor, file |-> file, args |-> <<>>,
     command |-> <<>>, events |-> <<Report(onError)>>]

\* Lines 249-300: the tracked process is killed, the new one spawned
Spawned(editor, file, args, plat, tracked, pid) ==
    [spawned |-> TRUE, editor |-> editor, file |-> file, args |-> args,
     command |-> IF plat = "win32" THEN launchCommand(editor, args) ELSE <<>>,
     events |-> (IF KillsTracked(tracked, editor)
                 THEN <<[kind |-> "kill", pid |-> tracked]>>
                 ELSE <<>>)
                \o <<[kind |-> "spawn", pid |-> pid]>>]

\* Lines 185-300, the editor being what guessEditor returned
Resolved(editor, file, p, env, plat, tracked, pid) ==
    IF NoEditor(editor) THEN Unrecognized(editor, p.file, p.onError)
    ELSE Spawned(editor, file,
                 LaunchArgs(editor, file, DefaultOne(p.line),
                            DefaultOne(p.column), p.method,
                            ChosenFormat(getEnvFormatPath(env), p.format), plat),
                 plat, tracked, pid)

launchIDEUnchecked(p, env, plat, tracked, pid) ==
    Resolved(guessEditor(p.editor, env, plat).editor,
             TargetFile(p.file, env, plat), p, env, plat, tracked, pid)

\* What one call of launchIDE does, the tracked process being `tracked` and
\* `pid` the process it would spawn: the events in the order they happen.
launchIDE(p, env, plat, tracked, pid) ==
    IF ~env.fileExists THEN Dropped(p.file)
    ELSE Resolved(guessEditor(p.editor, env, plat).editor,
                  TargetFile(p.file, env, plat), p, env, plat, tracked, pid)

IdleCall ==
    [op |-> "none", pid |-> 0, tracked |-> 0, fileExists |-> FALSE,
     line |-> Undefined, onError |-> FALSE, code |-> Undefined,
     outcome |-> Dropped(<<>>)]

Killed(ps, events) ==
    [i \in 1..Len(ps) |->
        IF \E k \in 1..Len(events) : events[k] = [kind |-> "kill", pid |-> i]
        THEN [ps[i] EXCEPT !.killed = TRUE]
        ELSE ps[i]]

Launching(r, p, env, max) ==
    /\ r.spawned => Len(procs) < max
    /\ procs' = IF r.spawned
                THEN Append(Killed(procs, r.events),
                            [editor |-> r.editor, status |-> "running",
                             killed |-> FALSE, onError |-> p.onError])
                ELSE procs
    /\ childProcess' = IF r.spawned THEN Len(procs) + 1 ELSE childProcess
    /\ last' = [IdleCall EXCEPT !.op = "launch",
                                !.pid = IF r.spawned THEN Len(procs) + 1 ELSE 0,
                                !.tracked = childProcess,
                                !.fileExists = env.fileExists,
                                !.line = p.line,
                                !.onError = p.onError,
                                !.outcome = r]
    /\ UNCHANGED <<platform, req, gaIn, gaOut, geIn, geOut>>

LaunchIDE(p, env, max) ==
    Launching(launchIDE(p, env, platform, childProcess, Len(procs) + 1),
              p, env, max)

\* Lines 303-314: the "exit" handler of process pid.  The code is Undefined
\* (null) for a process ended by a signal.
ExitKeepsTracked(tracked) == tracked

\* Line 304: _childProcess = null
ExitTracked(tracked) == 0

ExitCodes(proc) == {0, 1} \cup (IF proc.killed THEN {Undefined} ELSE {})

ExitNotify(pid, code) ==
    /\ procs[pid].status \in {"running", "errored"}
    /\ code \in ExitCodes(procs[pid])
    /\ childProcess' = ExitTracked(childProcess)
    /\ procs' = [procs EXCEPT ![pid].status = "exited"]
    /\ last' = [IdleCall EXCEPT !.op = "exit", !.pid = pid,
                                !.tracked = childProcess,
                                !.onError = procs[pid].onError,
                                !.code = code,
                                !.outcome.events =
                                    IF code \notin {0, Undefined}
                                    THEN <<Report(procs[pid].onError)>>
                                    ELSE <<>>]
    /\ UNCHANGED <<platform, req, gaIn, gaOut, geIn, geOut>>

\* Lines 317-323: the "error" handler of process pid (the spawn failed).
\* Node may or may not emit "exit" after "error".  The handler assigns
\* nothing to _childProcess.
ErrorTracked(tracked) == tracked

ErrorNotify(pid) ==
    /\ procs[pid].status = "running"
    /\ childProcess' = ErrorTracked(childProcess)
    /\ procs' = [procs EXCEPT ![pid].status = "errored"]
    /\ last' = [IdleCall EXCEPT !.op = "error", !.pid = pid,
                                !.tracked = childProcess,
                                !.onError = procs[pid].onError,
                                !.outcome.events = <<Report(procs[pid].onError)>>]
    /\ UNCHANGED <<platform, req, gaIn, gaOut, geIn, geOut>>

----------------------------------------------------------------------------
(* Bounds and inputs *)

MaxLaunches == 3

MaxRepeats == 2

TheFile == <<"/a/b.js">>

BaseParams ==
    [file |-> TheFile, line |-> Undefined, column |-> Undefined,
     editor |-> Null, method |-> "unset", format |-> NoFormat,
     onError |-> FALSE]

BaseEnv ==
    [CODE_EDITOR |-> Null, envLocalExists |-> FALSE,
     envLocalCodeEditor |-> Null, listingFails |-> FALSE,
     backupFails |-> FALSE, output |-> <<>>, VISUAL |-> Null, EDITOR |-> Null,
     fileExists |-> TRUE, FORMAT_PATH |-> UnsetConfig,
     envLocalFormatPath |-> UnsetConfig, wsl |-> FALSE]

\* Custom format overrides: template strings and lists of them, among them the
\* empty string and the empty list, and templates that repeat a placeholder.
CustomFormats ==
    {StringFormat(<<>>),
     StringFormat(<<"{file}", "#", "{line}">>),
     StringFormat(<<"{line}", "@", "{file}", "@", "{file}">>),
     ArrayFormat(<<>>),
     ArrayFormat(<< <<"--goto">>, <<"{file}", ":", "{line}", ":", "{column}">> >>),
     ArrayFormat(<< <<"{column}">>, <<"{line}">>, <<"{file}">>, <<"{column}">> >>)}

\* Spec: concurrency of launches and notifications
ConcParams == {[BaseParams EXCEPT !.onError = TRUE]}

ConcEnvs ==
    {[BaseEnv EXCEPT !.VISUAL = v, !.fileExists = f] :
        v \in {Null, <<"vim">>, <<"code">>}, f \in BOOLEAN}

\* SpecPipeline: one request, replayed, the file existing or not at each call
PipelineParams ==
    {[BaseParams EXCEPT !.file = f, !.line = l, !.column = c, !.editor = e,
                        !.method = m, !.format = fmt, !.onError = b] :
        f \in {TheFile, <<"/mnt/", "c/a.js">>},
        l \in {Undefined, 0, 10},
        c \in {Undefined},
        e \in {Null},
        m \in {"unset", "reuse"},
        fmt \in {NoFormat, StringFormat(<<"{file}", "#", "{line}">>)},
        b \in BOOLEAN}

PipelineEnvs ==
    {[BaseEnv EXCEPT !.wsl = w, !.FORMAT_PATH = fp, !.VISUAL = v,
                     !.output = out] :
        w \in BOOLEAN,
        fp \in {UnsetConfig,
                [set |-> TRUE, valid |-> FALSE, value |-> NoFormat],
                [set |-> TRUE, valid |-> TRUE,
                 value |-> ArrayFormat(<< <<"-l">>, <<"{line}">>, <<"{file}">> >>)]},
        v \in {Null, <<"emacs">>, <<"NONE">>},
        out \in {<<>>, <<"bash", "\n", "/usr/bin", "/", "vim", "\n", "code">>}}

\* SpecArgs: the parameters of a call of getArguments
ArgProcessNames ==
    KnownEditors
    \cup {<<"myedit">>, <<"MyEdit", ".EXE">>, <<"/usr/bin", "/", "vim">>,
          <<"/usr/bin", "/", "code">>,
          <<"C:\\Program Files\\Microsoft VS Code", "\\", "code", ".exe">>,
          <<"/Applications", "/", "Visual Studio Code.app/Contents/MacOS", "/", "Electron">>,
          <<"/opt", "/", "webstorm", ".sh">>}

ArgInputs ==
    [processName : ArgProcessNames,
     fileName : {TheFile, <<"/c d", "/", "e.ts">>},
     lineNumber : {1, 10},
     colNumber : {5},
     workspace : {Null, <<"/ws">>},
     openWindowParams : {<<>>, <<"-r">>, <<"-n">>},
     pathFormat : {NoFormat} \cup CustomFormats]

IdleArgs ==
    [processName |-> <<>>, fileName |-> <<>>, lineNumber |-> 1,
     colNumber |-> 1, workspace |-> Null, openWindowParams |-> <<>>,
     pathFormat |-> NoFormat]

\* SpecGuess: the parameter and environment of a call of guessEditor
ConfiguredNames == {Null, <<"code">>, <<"webstorm">>, <<"vim">>, <<"myedit">>}

Listings ==
    {<<>>,
     <<"bash", "\n", "vim", "\n", "code">>,
     <<"/Applications", "/", "Visual Studio Code.app/Contents/MacOS", "/", "Electron",
       "\n", "/Apps", "/", "WebStorm.app/Contents/MacOS", "/", "webstorm">>,
     <<"C:\\Tools", "\\", "webstorm64", ".exe", "\r\n",
       "C:\\VS", "\\", "Code", ".exe">>}

GuessInputs ==
    {[editor |-> e,
      env |-> [BaseEnv EXCEPT !.CODE_EDITOR = ce, !.envLocalExists = le,
                              !.envLocalCodeEditor = lce, !.listingFails = lf,
                              !.backupFails = bf, !.output = out,
                              !.VISUAL = v, !.EDITOR = ed]] :
        e \in ConfiguredNames, ce \in ConfiguredNames, le \in BOOLEAN,
        lce \in ConfiguredNames, lf \in BOOLEAN, bf \in BOOLEAN,
        out \in Listings, v \in {Null, <<"nano">>}, ed \in {Null, <<"vi">>}}

IdleRequest == [params |-> BaseParams, env |-> BaseEnv]
IdleGuess == [editor |-> Null, env |-> BaseEnv]
NotCalled == [called |-> FALSE, result |-> <<>>]
NotGuessed == [called |-> FALSE, editor |-> Null, listed |-> FALSE]

----------------------------------------------------------------------------
(* Specifications *)

Init ==
    /\ platform \in Platforms
    /\ childProcess = 0
    /\ procs = <<>>
    /\ last = IdleCall
    /\ req = IdleRequest
    /\ gaIn = IdleArgs /\ gaOut = NotCalled
    /\ geIn = IdleGuess /\ geOut = NotGuessed

Launch == \E p \in ConcParams, env \in ConcEnvs : LaunchIDE(p, env, MaxLaunches)

Exit == \E pid \in 1..Len(procs), code \in {0, 1, Undefined} : ExitNotify(pid, code)

Error == \E pid \in 1..Len(procs) : ErrorNotify(pid)

Next == Launch \/ Exit \/ Error

Spec == Init /\ [][Next]_vars

InitPipeline ==
    /\ platform \in Platforms
    /\ childProcess = 0
    /\ procs = <<>>
    /\ last = IdleCall
    /\ req \in [params : PipelineParams, env : PipelineEnvs]
    /\ gaIn = IdleArgs /\ gaOut = NotCalled
    /\ geIn = IdleGuess /\ geOut = NotGuessed

\* The file may appear and disappear between two calls.
LaunchRequest ==
    \E f \in BOOLEAN :
        LaunchIDE(req.params, [req.env EXCEPT !.fileExists = f], MaxRepeats)

NextPipeline == LaunchRequest \/ Exit \/ Error

SpecPipeline == InitPipeline /\ [][NextPipeline]_vars

InitArgs ==
    /\ platform \in Platforms
    /\ childProcess = 0
    /\ procs = <<>>
    /\ last = IdleCall
    /\ req = IdleRequest
    /\ gaIn \in ArgInputs /\ gaOut = NotCalled
    /\ geIn = IdleGuess /\ geOut = NotGuessed

CallGetArguments ==
    /\ ~gaOut.called
    /\ gaOut' = [called |-> TRUE, result |-> getArguments(gaIn, platform)]
    /\ UNCHANGED <<platform, childProcess, procs, last, req, gaIn, geIn, geOut>>

NextArgs == CallGetArguments

SpecArgs == InitArgs /\ [][NextArgs]_vars

InitGuess ==
    /\ platform \in Platforms
    /\ childProcess = 0
    /\ procs = <<>>
    /\ last = IdleCall
    /\ req = IdleRequest
    /\ gaIn = IdleArgs /\ gaOut = NotCalled
    /\ geIn \in GuessInputs /\ geOut = NotGuessed

CallGuessEditor ==
    /\ ~geOut.called
    /\ geOut' = [called |-> TRUE] @@ guessEditor(geIn.editor, geIn.env, platform)
    /\ UNCHANGED <<platform, childProcess, procs, last, req, gaIn, gaOut, geIn>>

NextGuess == CallGuessEditor

SpecGuess == InitGuess /\ [][NextGuess]_vars

----------------------------------------------------------------------------
(* Claims about process orchestration *)

TerminalFamily == {<<"vim">>, <<"emacs">>, <<"nano">>}

KillOf(pid) == [kind |-> "kill", pid |-> pid]
SpawnOf(pid) == [kind |-> "spawn", pid |-> pid]
EventsOf(call) == {call.outcome.events[k] : k \in 1..Len(call.outcome.events)}

\* The processes of terminal-attached editors that run and were sent no signal
Attached ==
    {i \in 1..Len(procs) :
        /\ procs[i].status = "running"
        /\ ~procs[i].killed
        /\ procs[i].editor \in TerminalFamily}

\* C1: whatever launchIDE calls and exit/error notifications have happened, at
\* most one process launched for a terminal-attached editor (vim, emacs, nano)
\* is running without having been sent a termination signal.
C1_AtMostOneTerminalAttached == Cardinality(Attached) <= 1

\* C2: a launchIDE call that spawns while a process is tracked issues, when its
\* editor is of the terminal family, one termination signal, to the tracked
\* process and before the spawn; when its editor is not, it issues none.
C2_KillBeforeSpawn ==
    (last.op = "launch" /\ last.outcome.spawned /\ last.tracked # 0) =>
        IF last.outcome.editor \in TerminalFamily
        THEN /\ last.outcome.events = <<KillOf(last.tracked), SpawnOf(last.pid)>>
             /\ procs[last.tracked].killed
        ELSE last.outcome.events = <<SpawnOf(last.pid)>>

\* a terminal editor was launched over a tracked process, which was signalled
C2_Witness ==
    /\ last.op = "launch"
    /\ last.tracked # 0
    /\ last.outcome.editor = <<"vim">>
    /\ KillOf(last.tracked) \in EventsOf(last)
    /\ childProcess = last.pid

FailureNotified ==
    \/ last.op = "exit" /\ last.code \notin {0, Undefined}
    \/ last.op = "error"

\* C3 as stated: after the exit notification with a non-zero code, and after
\* the spawn-error notification, of the process launched last, _childProcess
\* is null.
C3_FailureClearsTracked ==
    (FailureNotified /\ last.pid = Len(procs)) => childProcess = 0

\* C3 as amended: an exit notification, with a non-zero code as with any
\* other, leaves _childProcess null; a spawn-error notification leaves
\* _childProcess as it was.
C3_ExitClearsErrorKeeps ==
    /\ last.op = "exit" => childProcess = 0
    /\ last.op = "error" => childProcess = last.tracked

\* the spawn error of the process launched last was handled and the process is
\* still the tracked one
C3_Witness ==
    /\ last.op = "error"
    /\ last.pid = Len(procs)
    /\ childProcess = last.pid

\* C4: a launchIDE call whose file does not exist spawns nothing, signals
\* nothing, reports nothing (neither through onError nor on the console) and
\* leaves the tracked process as it was.
C4_MissingFileIsSilent ==
    [][(last'.op = "launch" /\ ~last'.fileExists) =>
            /\ last'.outcome.events = <<>>
            /\ ~last'.outcome.spawned
            /\ procs' = procs
            /\ childProcess' = childProcess]_vars

\* a call with onError supplied found the file missing while a process was
\* tracked
C4_Witness ==
    /\ last.op = "launch"
    /\ ~last.fileExists
    /\ last.onError
    /\ last.tracked # 0
    /\ childProcess = last.tracked

\* C11: whatever launchIDE calls have happened, whichever editors they resolved
\* to, no process launched for an editor outside the terminal family (vim,
\* emacs, nano) has been sent a termination signal.
C11_NonTerminalNeverKilled ==
    \A i \in 1..Len(procs) : procs[i].killed => procs[i].editor \in TerminalFamily

----------------------------------------------------------------------------
(* Claims about editor resolution *)

InTable(value) ==
    \E i \in 1..Len(COMMON_EDITOR_PROCESS_MAP(platform)) :
        COMMON_EDITOR_PROCESS_MAP(platform)[i].key = value

\* The override source that is the first to supply a value
FromEnvironment == Truthy(geIn.env.CODE_EDITOR)
FromLocalFile ==
    /\ ~FromEnvironment
    /\ geIn.env.envLocalExists
    /\ Truthy(geIn.env.envLocalCodeEditor)
FromParameter ==
    /\ ~FromEnvironment
    /\ ~(geIn.env.envLocalExists /\ Truthy(geIn.env.envLocalCodeEditor))
    /\ Truthy(geIn.editor)

ReturnedLiterally(value) == geOut.editor = value /\ ~geOut.listed

\* C5 as stated: for each of the three override sources (process.env, the
\* .env.local file, the editor parameter), when it is the first to supply a
\* value and the value is no entry of the platform table, guessEditor returns
\* that value and runs no process listing.
C5_UnknownOverrideReturnedLiterally ==
    geOut.called =>
        /\ (FromEnvironment /\ ~InTable(geIn.env.CODE_EDITOR))
                => ReturnedLiterally(geIn.env.CODE_EDITOR)
        /\ (FromLocalFile /\ ~InTable(geIn.env.envLocalCodeEditor))
                => ReturnedLiterally(geIn.env.envLocalCodeEditor)
        /\ (FromParameter /\ ~InTable(geIn.editor))
                => ReturnedLiterally(geIn.editor)

\* C5 as amended: that holds of process.env and of the .env.local file; an
\* editor parameter that is no entry of the platform table is ignored: the
\* process listing is run and the result is the one of a call without the
\* parameter.
C5_UnknownConfiguredLiteralParameterIgnored ==
    geOut.called =>
        /\ (FromEnvironment /\ ~InTable(geIn.env.CODE_EDITOR))
                => ReturnedLiterally(geIn.env.CODE_EDITOR)
        /\ (FromLocalFile /\ ~InTable(geIn.env.envLocalCodeEditor))
                => ReturnedLiterally(geIn.env.envLocalCodeEditor)
        /\ (FromParameter /\ ~InTable(geIn.editor))
                => /\ geOut.listed
                   /\ geOut.editor = guessEditor(Null, geIn.env, platform).editor

\* the only override was an editor parameter unknown to the table: the
\* processes were listed and a running editor was returned
C5_Witness ==
    /\ geOut.called
    /\ FromParameter
    /\ geIn.editor = <<"myedit">>
    /\ geOut.listed
    /\ geOut.editor = <<"code">>

\* The process names recorded as preferred: those of the first override that
\* supplies a value, when the platform table knows it
ProcessNamesOf(value) ==
    UNION {COMMON_EDITOR_PROCESS_MAP(platform)[i].paths :
              i \in {k \in 1..Len(COMMON_EDITOR_PROCESS_MAP(platform)) :
                        COMMON_EDITOR_PROCESS_MAP(platform)[k].key = value}}

PreferredNames ==
    IF FromEnvironment THEN ProcessNamesOf(geIn.env.CODE_EDITOR)
    ELSE IF FromLocalFile THEN ProcessNamesOf(geIn.env.envLocalCodeEditor)
    ELSE IF FromParameter THEN ProcessNamesOf(geIn.editor)
    ELSE {}

\* The process listing was obtained, by the command or, on win32, its backup
ListingObtained ==
    ~geIn.env.listingFails \/ (platform = "win32" /\ ~geIn.env.backupFails)

\* What the inspection of the listing matched, by table position
ListingMatches ==
    Matches(COMMON_EDITORS_MAP(platform),
            RunningProcesses(geIn.env.output, platform), geIn.env.output, platform)

Matched == Found(ListingMatches)

PreferredMatched ==
    {i \in Matched : ListingMatches[i].runningEditor \in PreferredNames}

\* C12: when the inspection of the running processes matches one or more
\* editors of the table, guessEditor returns a match that is a preferred
\* candidate (a process name of a known configured override) when there is
\* one, wherever it stands in the table, and the first match in table order
\* when there is none.
C12_PreferredElseFirstMatch ==
    (geOut.called /\ geOut.listed /\ ListingObtained /\ Matched # {}) =>
        IF PreferredMatched # {}
        THEN \E i \in PreferredMatched : geOut.editor = ListingMatches[i].editor
        ELSE geOut.editor = ListingMatches[First(Matched)].editor

\* a preferred editor was returned although an editor that is not preferred
\* is matched earlier in the table
C12_Witness ==
    /\ geOut.called /\ geOut.listed /\ ListingObtained
    /\ PreferredMatched # {}
    /\ First(Matched) \notin PreferredMatched
    /\ geOut.editor = ListingMatches[First(PreferredMatched)].editor
    /\ geOut.editor # ListingMatches[First(Matched)].editor

----------------------------------------------------------------------------
(* Claims about argument synthesis *)

Colon(file, line, column) == file \o <<":">> \o Str(line) \o <<":">> \o Str(column)

\* The override with its placeholders substituted, element by element
Substituted(format, file, line, column) ==
    IF format.kind = "string"
    THEN <<Substitute(format.val, file, line, column)>>
    ELSE [i \in 1..Len(format.val) |->
             Substitute(format.val[i], file, line, column)]

Overridden == gaOut.called /\ gaIn.pathFormat.kind # "undefined"

\* C7 as stated: whatever the editor, workspace and open-window parameter,
\* getArguments with a custom format override (a string or a list of strings)
\* returns the override with {file}, {line}, {column} substituted, as many
\* elements in the same order.
C7_OverrideAlwaysWins ==
    Overridden =>
        gaOut.result = Substituted(gaIn.pathFormat, gaIn.fileName,
                                   gaIn.lineNumber, gaIn.colNumber)

\* C7 as amended: that holds of every override but the empty string, which
\* counts as no override.
C7_NonEmptyOverrideWins ==
    (Overridden /\ gaIn.pathFormat # StringFormat(<<>>)) =>
        /\ gaOut.result = Substituted(gaIn.pathFormat, gaIn.fileName,
                                      gaIn.lineNumber, gaIn.colNumber)
        /\ Len(gaOut.result) = IF gaIn.pathFormat.kind = "string" THEN 1
                               ELSE Len(gaIn.pathFormat.val)

\* a list of four templates overrode the rule of a VS-Code family editor
\* called with a workspace and an open-window parameter
C7_Witness ==
    /\ gaOut.called
    /\ gaIn.processName = <<"code">>
    /\ gaIn.workspace = <<"/ws">>
    /\ gaIn.openWindowParams = <<"-r">>
    /\ gaIn.pathFormat =
         ArrayFormat(<< <<"{column}">>, <<"{line}">>, <<"{file}">>, <<"{column}">> >>)
    /\ gaIn.lineNumber = 10
    /\ gaOut.result = << <<"5">>, <<"10">>, gaIn.fileName, <<"5">> >>

NoFamily ==
    /\ gaOut.called
    /\ gaIn.pathFormat.kind = "undefined"
    /\ getEditorBasenameByProcessName(gaIn.processName, platform) \notin KnownEditors

\* C8 as stated: for an editor of no known family and no custom format,
\* getArguments returns the one element "<file>:<line>:<column>".
C8_NoFamilyGetsFileLineColumn ==
    NoFamily =>
        gaOut.result = <<Colon(gaIn.fileName, gaIn.lineNumber, gaIn.colNumber)>>

\* C8 as amended: for an editor of no known family and no custom format, the
\* format defaults to {file} and getArguments returns the one element "<file>".
C8_NoFamilyGetsFileOnly == NoFamily => gaOut.result = <<gaIn.fileName>>

\* an editor of no family was asked for line 10
C8_Witness ==
    /\ NoFamily
    /\ gaIn.processName = <<"MyEdit", ".EXE">>
    /\ gaIn.lineNumber = 10
    /\ gaOut.result = <<gaIn.fileName>>

\* What each family's rule gives for a file, a line and a column
FamilyArguments(name, file, line, column, openWindowParams, workspace) ==
    CASE name \in PlainEditors -> <<Colon(file, line, column)>>
      [] name \in NotepadEditors ->
            << <<"-n">> \o Str(line), <<"-c">> \o Str(column), file >>
      [] name \in VimEditors ->
            << <<"+call cursor(">> \o Str(line) \o <<", ">> \o Str(column)
               \o <<")">>, file >>
      [] name \in PlusLineEditors -> << <<"+">> \o Str(line), file >>
      [] name \in EmacsEditors ->
            << <<"+">> \o Str(line) \o <<":">> \o Str(column), file >>
      [] name \in TextMateEditors -> << <<"--line">>, Str(line), file >>
      [] name \in VSCodeEditors ->
            (IF workspace \in {Null, <<>>} THEN <<>> ELSE <<workspace>>)
            \o << <<"-g">> >>
            \o (IF openWindowParams = <<>> THEN <<>> ELSE <<openWindowParams>>)
            \o <<Colon(file, line, column)>>
      [] name \in JetBrainsEditors ->
            (IF workspace \in {Null, <<>>} THEN <<>> ELSE <<workspace>>)
            \o << <<"--line">>, Str(line), file >>

\* C9: with no custom format, getArguments called with the canonical name of
\* an editor of a known family returns the family's arguments in the family's
\* order: the VS-Code family [workspace, "-g", openWindowParams,
\* "file:line:column"], workspace and openWindowParams left out when empty, the
\* vim family ["+call cursor(line, column)", file].
C9_FamilyArguments ==
    (gaOut.called /\ gaIn.pathFormat.kind = "undefined"
                  /\ gaIn.processName \in KnownEditors) =>
        gaOut.result = FamilyArguments(gaIn.processName, gaIn.fileName,
                                       gaIn.lineNumber, gaIn.colNumber,
                                       gaIn.openWindowParams, gaIn.workspace)

\* the example of the documentation: code, /ws, -r, /a/b.js, 10, 5
C9_Witness ==
    /\ gaOut.called
    /\ gaIn.pathFormat.kind = "undefined"
    /\ gaIn.processName = <<"code">>
    /\ gaOut.result = << <<"/ws">>, <<"-g">>, <<"-r">>,
                         <<"/a/b.js", ":", "10", ":", "5">> >>

----------------------------------------------------------------------------
(* Claims about the pipeline of one call *)

\* C6: a launchIDE call without a line number that spawns hands the editor the
\* argument list [file].
C6_NoLineMeansFileOnly ==
    (last.op = "launch" /\ last.outcome.spawned /\ last.line = Undefined) =>
        last.outcome.args = <<last.outcome.file>>

\* C10: when no editor is identified for an existing file (guessEditor returns
\* null), launchIDE reports once, through onError when it is supplied and on
\* the console when it is not, and spawns and signals nothing.
C10_UnrecognizedReportedOnce ==
    [][(last'.op = "launch" /\ last'.fileExists /\ last'.outcome.editor = Null) =>
            /\ last'.outcome.events =
                 <<[kind |-> IF last'.onError THEN "onError" ELSE "console",
                    pid |-> 0]>>
            /\ ~last'.outcome.spawned
            /\ procs' = procs
            /\ childProcess' = childProcess]_vars

\* no editor was identified for an existing file, and onError was called
C10_Witness ==
    /\ last.op = "launch"
    /\ last.fileExists
    /\ last.outcome.editor = Null
    /\ last.onError
    /\ last.outcome.events = <<[kind |-> "onError", pid |-> 0]>>

====
